---- MODULE Spec2Model ----
(***************************************************************************)
(* Settings accessors of the valexa front-end: the computed getter/setter  *)
(* pairs of DataSetting, ProfileSetting and AdvancedSetting, which proxy   *)
(* the shared settings store (getSettingsValue / setSettingsValue), and    *)
(* the boolean <-> display-label helper convertTrueFalse.                  *)
(***************************************************************************)
EXTENDS Naturals, FiniteSets, TLC

VARIABLES store, written, nops, last

vars == <<store, written, nops, last>>

(***************************************************************************)
(* JavaScript values.  A value carries its type, so that strict equality   *)
(* (===) can tell the boolean true from the string "true" and undefined    *)
(* from the empty string.                                                  *)
(***************************************************************************)
Undefined == [t |-> "undefined", v |-> "undefined"]

Bool(b) == [t |-> "boolean", v |-> IF b THEN "true" ELSE "false"]

Str(s) == [t |-> "string", v |-> s]

Num(s) == [t |-> "number", v |-> s]

\* value === other, on primitive values: same type and same value.
StrictEquals(value, other) == value.t = other.t /\ value.v = other.v

\* The condition of `if (x)`: false, 0, "" and undefined are falsy.
Truthy(x) == ~(x \in {Undefined, Bool(FALSE), Str(""), Num("0")})

(***************************************************************************)
(* Bounds and inputs.                                                      *)
(***************************************************************************)
\* Number of accessor calls (getter or setter) explored.
MaxOps == 2

\* Settings groups (the settingsName prop).
Groups == {"profileA", "profileB"}

\* Label pairs a languageText object may carry.  A languageText that lacks
\* the two keys yields undefined for both.
LabelPairs ==
    { [selectTrue |-> Str("Yes"), selectFalse |-> Str("No")],
      [selectTrue |-> Str("Oui"), selectFalse |-> Str("Non")],
      [selectTrue |-> Undefined, selectFalse |-> Undefined] }

\* Values a text field hands to a plain setter.
PlainInputs == {Str("log10"), Num("95")}

\* Values handed to a boolean-label setter besides the component's own two
\* items: a label of another language, the empty string, undefined.
OtherInputs == {Str("Yes"), Str(""), Undefined}

\* Setting keys of the boolean-label accessors and of the plain accessors.
BoolSettings == {"use_median", "acceptance_absolute", "correction_allow"}

PlainSettings ==
    {"data_transformation", "tolerance_limit", "acceptance_limit",
     "correction_forced_value", "correction_round_to", "correction_threshold",
     "rolling_data", "rollingLimit", "significant_figure", "model_to_test"}

Settings == BoolSettings \cup PlainSettings

\* The computed properties that go through convertTrueFalse.
BoolAccessors == {"useMedian", "acceptanceAbsolute", "correctionAllow"}

(***************************************************************************)
(* The settings store (Vuex): a mapping (group, key) -> value.  A pair     *)
(* that holds nothing reads as undefined.                                  *)
(***************************************************************************)
getSettingsValue(payload) == store[payload.name][payload.setting]

setSettingsValue(payload) ==
    /\ store' = [store EXCEPT ![payload.name][payload.setting] = payload.value]
    /\ written' = written \cup {<<payload.name, payload.setting>>}

(***************************************************************************)
(* Component instances: the props each component is mounted with.          *)
(***************************************************************************)
AdvancedSettingProps ==
    { [settingsName |-> g,
       languageText |-> [selectTrue |-> p.selectTrue,
                         selectFalse |-> p.selectFalse,
                         data |-> p]] :
        g \in Groups, p \in LabelPairs }

\* <DataSetting :language-text="languageText.data" :settings-name="settingsName"/>
DataSettingOf(a) ==
    [settingsName |-> a.settingsName, languageText |-> a.languageText.data]

DataSettingProps == { DataSettingOf(a) : a \in AdvancedSettingProps }

ProfileSettingProps ==
    { [settingsName |-> g, languageText |-> p] : g \in Groups, p \in LabelPairs }

(***************************************************************************)
(* convertTrueFalse (the same method in the three components).             *)
(***************************************************************************)
\* Faulty variant: the two labels exchanged on the way to a label.
convertTrueFalse_swapped(languageText, value, toBool) ==
    IF Truthy(toBool)
    THEN Bool(StrictEquals(value, languageText.selectTrue))
    ELSE IF StrictEquals(value, Bool(TRUE))
         THEN languageText.selectFalse
         ELSE languageText.selectTrue

\* Faulty variant: on the way to a boolean, everything but the "false" label
\* counts as true.
convertTrueFalse_notFalse(languageText, value, toBool) ==
    IF Truthy(toBool)
    THEN Bool(~StrictEquals(value, languageText.selectFalse))
    ELSE IF StrictEquals(value, Bool(TRUE))
         THEN languageText.selectTrue
         ELSE languageText.selectFalse

convertTrueFalse(languageText, value, toBool) ==
    IF Truthy(toBool)
    THEN Bool(StrictEquals(value, languageText.selectTrue))
    ELSE IF StrictEquals(value, Bool(TRUE))
         THEN languageText.selectTrue
         ELSE languageText.selectFalse

itemsTrueFalse(languageText) ==
    {languageText.selectTrue, languageText.selectFalse}

\* What a v-select bound to a boolean-label accessor can hand to its setter.
BoolInputs(c) == itemsTrueFalse(c.languageText) \cup OtherInputs

(***************************************************************************)
(* DataSetting                                                             *)
(***************************************************************************)
\* Faulty variant: the getter reads the key of another boolean setting.
useMedian_get_otherKey(c) ==
    convertTrueFalse(c.languageText,
                     getSettingsValue([name |-> c.settingsName,
                                       setting |-> "correction_allow"]),
                     Undefined)

useMedian_get(c) ==
    convertTrueFalse(c.languageText,
                     getSettingsValue([name |-> c.settingsName,
                                       setting |-> "use_median"]),
                     Undefined)

\* Faulty variant: the setter stores the selected label itself.
useMedian_set_raw(c, value) ==
    setSettingsValue([name |-> c.settingsName,
                      setting |-> "use_median",
                      value |-> value])

useMedian_set(c, value) ==
    setSettingsValue([name |-> c.settingsName,
                      setting |-> "use_median",
                      value |-> convertTrueFalse(c.languageText, value, Bool(TRUE))])

dataTransformation_get(c) ==
    getSettingsValue([name |-> c.settingsName, setting |-> "data_transformation"])

dataTransformation_set(c, value) ==
    setSettingsValue([name |-> c.settingsName,
                      setting |-> "data_transformation",
                      value |-> value])

(***************************************************************************)
(* ProfileSetting                                                          *)
(***************************************************************************)
\* Faulty variant: the getter substitutes a default for a missing value.
toleranceLimit_get_default(c) ==
    LET value == getSettingsValue([name |-> c.settingsName,
                                   setting |-> "tolerance_limit"])
    IN  IF Truthy(value) THEN value ELSE Num("0")

toleranceLimit_get(c) ==
    getSettingsValue([name |-> c.settingsName, setting |-> "tolerance_limit"])

toleranceLimit_set(c, value) ==
    setSettingsValue([name |-> c.settingsName,
                      setting |-> "tolerance_limit",
                      value |-> value])

acceptanceLimit_get(c) ==
    getSettingsValue([name |-> c.settingsName, setting |-> "acceptance_limit"])

\* Faulty variant: the setter writes the key of the neighbouring field.
acceptanceLimit_set_otherKey(c, value) ==
    setSettingsValue([name |-> c.settingsName,
                      setting |-> "tolerance_limit",
                      value |-> value])

acceptanceLimit_set(c, value) ==
    setSettingsValue([name |-> c.settingsName,
                      setting |-> "acceptance_limit",
                      value |-> value])

\* Faulty variant: the getter returns the stored boolean unconverted.
acceptanceAbsolute_get_raw(c) ==
    getSettingsValue([name |-> c.settingsName, setting |-> "acceptance_absolute"])

acceptanceAbsolute_get(c) ==
    convertTrueFalse(c.languageText,
                     getSettingsValue([name |-> c.settingsName,
                                       setting |-> "acceptance_absolute"]),
                     Undefined)

acceptanceAbsolute_set(c, value) ==
    setSettingsValue([name |-> c.settingsName,
                      setting |-> "acceptance_absolute",
                      value |-> convertTrueFalse(c.languageText, value, Bool(TRUE))])

(***************************************************************************)
(* AdvancedSetting                                                         *)
(***************************************************************************)
correctionAllow_get(c) ==
    convertTrueFalse(c.languageText,
                     getSettingsValue([name |-> c.settingsName,
                                       setting |-> "correction_allow"]),
                     Undefined)

\* Faulty variant: the setter converts without the toBool flag.
correctionAllow_set_noFlag(c, value) ==
    setSettingsValue([name |-> c.settingsName,
                      setting |-> "correction_allow",
                      value |-> convertTrueFalse(c.languageText, value, Undefined)])

correctionAllow_set(c, value) ==
    setSettingsValue([name |-> c.settingsName,
                      setting |-> "correction_allow",
                      value |-> convertTrueFalse(c.languageText, value, Bool(TRUE))])

correctionForcedValue_get(c) ==
    getSettingsValue([name |-> c.settingsName, setting |-> "correction_forced_value"])

correctionForcedValue_set(c, value) ==
    setSettingsValue([name |-> c.settingsName,
                      setting |-> "correction_forced_value",
                      value |-> value])

correctionRoundTo_get(c) ==
    getSettingsValue([name |-> c.settingsName, setting |-> "correction_round_to"])

correctionRoundTo_set(c, value) ==
    setSettingsValue([name |-> c.settingsName,
                      setting |-> "correction_round_to",
                      value |-> value])

correctionThreshold_get(c) ==
    getSettingsValue([name |-> c.settingsName, setting |-> "correction_threshold"])

correctionThreshold_set(c, value) ==
    setSettingsValue([name |-> c.settingsName,
                      setting |-> "correction_threshold",
                      value |-> value])

rollingData_get(c) ==
    getSettingsValue([name |-> c.settingsName, setting |-> "rolling_data"])

rollingData_set(c, value) ==
    setSettingsValue([name |-> c.settingsName,
                      setting |-> "rolling_data",
                      value |-> value])

rollingLimit_get(c) ==
    getSettingsValue([name |-> c.settingsName, setting |-> "rollingLimit"])

rollingLimit_set(c, value) ==
    setSettingsValue([name |-> c.settingsName,
                      setting |-> "rollingLimit",
                      value |-> value])

significantFigure_get(c) ==
    getSettingsValue([name |-> c.settingsName, setting |-> "significant_figure"])

significantFigure_set(c, value) ==
    setSettingsValue([name |-> c.settingsName,
                      setting |-> "significant_figure",
                      value |-> value])

modelToTest_get(c) ==
    getSettingsValue([name |-> c.settingsName, setting |-> "model_to_test"])

modelToTest_set(c, value) ==
    setSettingsValue([name |-> c.settingsName,
                      setting |-> "model_to_test",
                      value |-> value])

(***************************************************************************)
(* What the last accessor call was: a getter call records the value it     *)
(* returned, a setter call the value it was given.                         *)
(***************************************************************************)
Labels(c) ==
    [selectTrue |-> c.languageText.selectTrue,
     selectFalse |-> c.languageText.selectFalse]

\* The props and data a call of accessor `prop` on instance c reads: the plain
\* accessors read settingsName alone, the boolean-label ones languageText too.
Call(op, prop, c, value) ==
    IF prop \in BoolAccessors
    THEN [op |-> op, prop |-> prop, name |-> c.settingsName,
          languageText |-> Labels(c), value |-> value]
    ELSE [op |-> op, prop |-> prop, name |-> c.settingsName, value |-> value]

Returned(prop, c, result) ==
    /\ nops < MaxOps
    /\ nops' = nops + 1
    /\ last' = Call("get", prop, c, result)
    /\ UNCHANGED <<store, written>>

Assigned(prop, c, value) ==
    /\ nops < MaxOps
    /\ nops' = nops + 1
    /\ last' = Call("set", prop, c, value)

(***************************************************************************)
(* The state after construction: an empty store.                           *)
(***************************************************************************)
Init ==
    /\ store = [g \in Groups |-> [k \in Settings |-> Undefined]]
    /\ written = {}
    /\ nops = 0
    /\ last = [op |-> "init"]

(***************************************************************************)
(* One action per getter and per setter, on any mounted instance.          *)
(***************************************************************************)
Get_useMedian ==
    \E c \in DataSettingProps : Returned("useMedian", c, useMedian_get(c))

Set_useMedian ==
    \E c \in DataSettingProps :
        \E value \in BoolInputs(c) :
            useMedian_set(c, value) /\ Assigned("useMedian", c, value)

\* Faulty variant: the getter writes the value it read back, trimmed to a
\* default when it is missing.
Get_dataTransformation_writing ==
    \E c \in DataSettingProps :
        LET value == dataTransformation_get(c)
            kept == IF value = Undefined THEN Str("") ELSE value
        IN  /\ dataTransformation_set(c, kept)
            /\ nops < MaxOps
            /\ nops' = nops + 1
            /\ last' = Call("get", "dataTransformation", c, kept)

Get_dataTransformation ==
    \E c \in DataSettingProps : Returned("dataTransformation", c, dataTransformation_get(c))

Set_dataTransformation ==
    \E c \in DataSettingProps :
        \E value \in PlainInputs :
            dataTransformation_set(c, value) /\ Assigned("dataTransformation", c, value)

Get_toleranceLimit ==
    \E c \in ProfileSettingProps : Returned("toleranceLimit", c, toleranceLimit_get(c))

Set_toleranceLimit ==
    \E c \in ProfileSettingProps :
        \E value \in PlainInputs :
            toleranceLimit_set(c, value) /\ Assigned("toleranceLimit", c, value)

Get_acceptanceLimit ==
    \E c \in ProfileSettingProps : Returned("acceptanceLimit", c, acceptanceLimit_get(c))

Set_acceptanceLimit ==
    \E c \in ProfileSettingProps :
        \E value \in PlainInputs :
            acceptanceLimit_set(c, value) /\ Assigned("acceptanceLimit", c, value)

Get_acceptanceAbsolute ==
    \E c \in ProfileSettingProps : Returned("acceptanceAbsolute", c, acceptanceAbsolute_get(c))

Set_acceptanceAbsolute ==
    \E c \in ProfileSettingProps :
        \E value \in BoolInputs(c) :
            acceptanceAbsolute_set(c, value) /\ Assigned("acceptanceAbsolute", c, value)

Get_correctionAllow ==
    \E c \in AdvancedSettingProps : Returned("correctionAllow", c, correctionAllow_get(c))

Set_correctionAllow ==
    \E c \in AdvancedSettingProps :
        \E value \in BoolInputs(c) :
            correctionAllow_set(c, value) /\ Assigned("correctionAllow", c, value)

Get_correctionForcedValue ==
    \E c \in AdvancedSettingProps : Returned("correctionForcedValue", c, correctionForcedValue_get(c))

Set_correctionForcedValue ==
    \E c \in AdvancedSettingProps :
        \E value \in PlainInputs :
            correctionForcedValue_set(c, value) /\ Assigned("correctionForcedValue", c, value)

Get_correctionRoundTo ==
    \E c \in AdvancedSettingProps : Returned("correctionRoundTo", c, correctionRoundTo_get(c))

Set_correctionRoundTo ==
    \E c \in AdvancedSettingProps :
        \E value \in PlainInputs :
            correctionRoundTo_set(c, value) /\ Assigned("correctionRoundTo", c, value)

Get_correctionThreshold ==
    \E c \in AdvancedSettingProps : Returned("correctionThreshold", c, correctionThreshold_get(c))

Set_correctionThreshold ==
    \E c \in AdvancedSettingProps :
        \E value \in PlainInputs :
            correctionThreshold_set(c, value) /\ Assigned("correctionThreshold", c, value)

Get_rollingData ==
    \E c \in AdvancedSettingProps : Returned("rollingData", c, rollingData_get(c))

Set_rollingData ==
    \E c \in AdvancedSettingProps :
        \E value \in PlainInputs :
            rollingData_set(c, value) /\ Assigned("rollingData", c, value)

Get_rollingLimit ==
    \E c \in AdvancedSettingProps : Returned("rollingLimit", c, rollingLimit_get(c))

Set_rollingLimit ==
    \E c \in AdvancedSettingProps :
        \E value \in PlainInputs :
            rollingLimit_set(c, value) /\ Assigned("rollingLimit", c, value)

Get_significantFigure ==
    \E c \in AdvancedSettingProps : Returned("significantFigure", c, significantFigure_get(c))

Set_significantFigure ==
    \E c \in AdvancedSettingProps :
        \E value \in PlainInputs :
            significantFigure_set(c, value) /\ Assigned("significantFigure", c, value)

Get_modelToTest ==
    \E c \in AdvancedSettingProps : Returned("modelToTest", c, modelToTest_get(c))

Set_modelToTest ==
    \E c \in AdvancedSettingProps :
        \E value \in PlainInputs :
            modelToTest_set(c, value) /\ Assigned("modelToTest", c, value)

Next ==
    \/ Get_useMedian
    \/ Set_useMedian
    \/ Get_dataTransformation
    \/ Set_dataTransformation
    \/ Get_toleranceLimit
    \/ Set_toleranceLimit
    \/ Get_acceptanceLimit
    \/ Set_acceptanceLimit
    \/ Get_acceptanceAbsolute
    \/ Set_acceptanceAbsolute
    \/ Get_correctionAllow
    \/ Set_correctionAllow
    \/ Get_correctionForcedValue
    \/ Set_correctionForcedValue
    \/ Get_correctionRoundTo
    \/ Set_correctionRoundTo
    \/ Get_correctionThreshold
    \/ Set_correctionThreshold
    \/ Get_rollingData
    \/ Set_rollingData
    \/ Get_rollingLimit
    \/ Set_rollingLimit
    \/ Get_significantFigure
    \/ Set_significantFigure
    \/ Get_modelToTest
    \/ Set_modelToTest

Spec == Init /\ [][Next]_vars

(***************************************************************************)
(* Vocabulary of the properties.                                           *)
(***************************************************************************)
Accessors ==
    {"useMedian", "dataTransformation", "toleranceLimit", "acceptanceLimit",
     "acceptanceAbsolute", "correctionAllow", "correctionForcedValue",
     "correctionRoundTo", "correctionThreshold", "rollingData", "rollingLimit",
     "significantFigure", "modelToTest"}

\* The store key each computed property stands for.
SettingOf(prop) ==
    CASE prop = "useMedian" -> "use_median"
      [] prop = "dataTransformation" -> "data_transformation"
      [] prop = "toleranceLimit" -> "tolerance_limit"
      [] prop = "acceptanceLimit" -> "acceptance_limit"
      [] prop = "acceptanceAbsolute" -> "acceptance_absolute"
      [] prop = "correctionAllow" -> "correction_allow"
      [] prop = "correctionForcedValue" -> "correction_forced_value"
      [] prop = "correctionRoundTo" -> "correction_round_to"
      [] prop = "correctionThreshold" -> "correction_threshold"
      [] prop = "rollingData" -> "rolling_data"
      [] prop = "rollingLimit" -> "rollingLimit"
      [] prop = "significantFigure" -> "significant_figure"
      [] prop = "modelToTest" -> "model_to_test"

\* The instances of the component that owns a computed property.
PropsOf(prop) ==
    CASE prop \in {"useMedian", "dataTransformation"} -> DataSettingProps
      [] prop \in {"toleranceLimit", "acceptanceLimit", "acceptanceAbsolute"} ->
            ProfileSettingProps
      [] OTHER -> AdvancedSettingProps

\* What reading computed property `prop` of instance c returns now.
GetterOf(prop, c) ==
    CASE prop = "useMedian" -> useMedian_get(c)
      [] prop = "dataTransformation" -> dataTransformation_get(c)
      [] prop = "toleranceLimit" -> toleranceLimit_get(c)
      [] prop = "acceptanceLimit" -> acceptanceLimit_get(c)
      [] prop = "acceptanceAbsolute" -> acceptanceAbsolute_get(c)
      [] prop = "correctionAllow" -> correctionAllow_get(c)
      [] prop = "correctionForcedValue" -> correctionForcedValue_get(c)
      [] prop = "correctionRoundTo" -> correctionRoundTo_get(c)
      [] prop = "correctionThreshold" -> correctionThreshold_get(c)
      [] prop = "rollingData" -> rollingData_get(c)
      [] prop = "rollingLimit" -> rollingLimit_get(c)
      [] prop = "significantFigure" -> significantFigure_get(c)
      [] prop = "modelToTest" -> modelToTest_get(c)

Booleans == {Bool(TRUE), Bool(FALSE)}

IsCall == last.op \in {"get", "set"}

IsBoolCall == IsCall /\ last.prop \in BoolAccessors

IsPlainCall == IsCall /\ last.prop \notin BoolAccessors

\* The (group, key) pair of the last call, and what the store holds there.
LastPair == <<last.name, SettingOf(last.prop)>>

LastStored == store[last.name][SettingOf(last.prop)]

\* The instances the last call can have been made on: those of the owning
\* component with the props the call read.
SameProps(c) ==
    /\ c.settingsName = last.name
    /\ last.prop \in BoolAccessors => Labels(c) = last.languageText

Callers == { c \in PropsOf(last.prop) : SameProps(c) }

\* What the last setter call handed to the store.
HandedToStore ==
    IF IsBoolCall
    THEN Bool(last.value = last.languageText.selectTrue)
    ELSE last.value

YesNo == [selectTrue |-> Str("Yes"), selectFalse |-> Str("No")]

(***************************************************************************)
(* C1.  set(g,k,v) immediately followed by get(g,k) returns v, whatever    *)
(* came before: after a setter call the store holds, under the property's  *)
(* key, the value handed to the store, and after a plain setter call the   *)
(* same component's getter returns the value that was written.             *)
(***************************************************************************)
SetThenGet ==
    (last.op = "set") =>
        /\ LastStored = HandedToStore
        /\ IsPlainCall =>
              \A c \in Callers : GetterOf(last.prop, c) = last.value

SetThenGetWitness ==
    /\ nops = 2
    /\ last.op = "set"
    /\ last.prop = "acceptanceLimit"
    /\ last.value = Num("95")
    /\ <<last.name, "tolerance_limit">> \in written
    /\ \E c \in ProfileSettingProps :
          c.settingsName = last.name /\ acceptanceLimit_get(c) = Num("95")

(***************************************************************************)
(* C2.  toBool(toBoolLabel(b)) = b for both booleans, for every label pair *)
(* a component can be given: the label a boolean-label getter returns for  *)
(* a stored boolean converts back to that boolean.                         *)
(***************************************************************************)
LabelRoundTripAnyLabels ==
    (last.op = "get" /\ IsBoolCall /\ LastStored \in Booleans) =>
        convertTrueFalse(last.languageText, last.value, Bool(TRUE)) = LastStored

\* C2 as amended: the round trip holds for b = true with any label pair, and
\* for b = false when the two labels differ; with equal labels the label of
\* false converts back to true.
LabelRoundTrip ==
    (last.op = "get" /\ IsBoolCall /\ LastStored \in Booleans) =>
        LET back == convertTrueFalse(last.languageText, last.value, Bool(TRUE))
            same == last.languageText.selectTrue = last.languageText.selectFalse
        IN  /\ LastStored = Bool(TRUE) => back = Bool(TRUE)
            /\ (LastStored = Bool(FALSE) /\ ~same) => back = Bool(FALSE)
            /\ (LastStored = Bool(FALSE) /\ same) => back = Bool(TRUE)

LabelRoundTripWitness ==
    /\ last.op = "get"
    /\ IsBoolCall
    /\ LastStored = Bool(FALSE)
    /\ last.languageText = YesNo
    /\ last.value = Str("No")

(***************************************************************************)
(* C3.  toBool(label) is false for every input that is not the "true"      *)
(* label (the "false" label, the empty string, undefined, any other        *)
(* string) and true only for the "true" label; it always yields a boolean. *)
(***************************************************************************)
ToBoolFallback ==
    (last.op = "set" /\ IsBoolCall) =>
        /\ LastStored \in Booleans
        /\ last.value # last.languageText.selectTrue => LastStored = Bool(FALSE)
        /\ LastStored = Bool(TRUE) => last.value = last.languageText.selectTrue

ToBoolFallbackWitness ==
    /\ last.op = "set"
    /\ IsBoolCall
    /\ last.languageText = YesNo
    /\ last.value = Undefined
    /\ LastStored = Bool(FALSE)

(***************************************************************************)
(* C4.  get on a (group, key) pair that was never set returns undefined:   *)
(* the store reads undefined there, and so does a plain getter.            *)
(***************************************************************************)
NeverSetReadsUndefined ==
    /\ \A g \in Groups, k \in Settings :
          <<g, k>> \notin written =>
              getSettingsValue([name |-> g, setting |-> k]) = Undefined
    /\ \A prop \in Accessors \ BoolAccessors :
          \A c \in PropsOf(prop) :
              <<c.settingsName, SettingOf(prop)>> \notin written =>
                  GetterOf(prop, c) = Undefined
    /\ (last.op = "get" /\ IsPlainCall /\ LastPair \notin written) =>
          last.value = Undefined

NeverSetReadsUndefinedWitness ==
    /\ last.op = "get"
    /\ last.prop = "toleranceLimit"
    /\ LastPair \notin written
    /\ written # {}
    /\ last.value = Undefined

(***************************************************************************)
(* C5.  For a boolean setting, once true is stored the store reads true    *)
(* and the boolean-label getter returns the "true" label; once false is    *)
(* stored the store reads false and the getter returns the "false" label.  *)
(***************************************************************************)
BoolSettingShowsLabel ==
    \A prop \in BoolAccessors :
        \A c \in PropsOf(prop) :
            LET stored == getSettingsValue([name |-> c.settingsName,
                                            setting |-> SettingOf(prop)])
            IN  /\ stored = Bool(TRUE) =>
                      GetterOf(prop, c) = c.languageText.selectTrue
                /\ stored = Bool(FALSE) =>
                      GetterOf(prop, c) = c.languageText.selectFalse

BoolSettingShowsLabelWitness ==
    /\ last.op = "set"
    /\ last.prop = "acceptanceAbsolute"
    /\ last.name = "profileA"
    /\ last.languageText = YesNo
    /\ store["profileA"]["acceptance_absolute"] = Bool(TRUE)
    /\ acceptanceAbsolute_get([settingsName |-> "profileA",
                               languageText |-> YesNo]) = Str("Yes")

(***************************************************************************)
(* C6.  When a setting key is missing from the store, every getter for     *)
(* that key, plain or boolean-label, yields an empty or undefined value.   *)
(***************************************************************************)
MissingKeyReadsBlank ==
    (last.op = "get" /\ LastPair \notin written) =>
        last.value \in {Undefined, Str("")}

(***************************************************************************)
(* C7.  Display labels are never persisted: whatever is written through    *)
(* the boolean-label setters, a value stored under use_median,             *)
(* acceptance_absolute or correction_allow is the boolean true or false.   *)
(***************************************************************************)
LabelsNeverPersisted ==
    \A g \in Groups, k \in BoolSettings :
        /\ <<g, k>> \in written => store[g][k] \in Booleans
        /\ <<g, k>> \notin written => store[g][k] = Undefined

LabelsNeverPersistedWitness ==
    /\ last.op = "set"
    /\ last.prop = "useMedian"
    /\ last.languageText = YesNo
    /\ last.value = Str("Yes")
    /\ store[last.name]["use_median"] = Bool(TRUE)

(***************************************************************************)
(* C8.  A write is visible to every observer of the pair: after a setter   *)
(* call, every instance bound to the same settingsName reads the value     *)
(* just stored through its getter for that key (shown with its own labels  *)
(* by a boolean-label getter), and a DataSetting is bound to the           *)
(* settingsName of the AdvancedSetting that holds it.                      *)
(***************************************************************************)
\* How instance d shows a stored value through the getter of `prop`.
ShownBy(d, prop, stored) ==
    IF prop \in BoolAccessors
    THEN IF stored = Bool(TRUE)
         THEN d.languageText.selectTrue
         ELSE d.languageText.selectFalse
    ELSE stored

WriteVisibleToObservers ==
    /\ \A a \in AdvancedSettingProps :
          DataSettingOf(a).settingsName = a.settingsName
    /\ (last.op = "set") =>
          \A d \in PropsOf(last.prop) :
              d.settingsName = last.name =>
                  GetterOf(last.prop, d) = ShownBy(d, last.prop, HandedToStore)

WriteVisibleToObserversWitness ==
    /\ last.op = "set"
    /\ last.prop = "useMedian"
    /\ last.languageText = YesNo
    /\ last.value = Str("Yes")
    /\ \E d \in DataSettingProps :
          /\ d.settingsName = last.name
          /\ d.languageText # YesNo
          /\ useMedian_get(d) = Str("Oui")

(***************************************************************************)
(* C9.  get has no side effects: a getter call leaves the whole store      *)
(* unchanged, whether or not the pair is present, and a getter call that   *)
(* directly follows the same getter call returns the same value.           *)
(***************************************************************************)
GetHasNoSideEffects ==
    [][(last'.op = "get" /\ nops' # nops) =>
          /\ store' = store
          /\ written' = written
          /\ (last.op = "get" /\ last.prop = last'.prop /\ last.name = last'.name
                /\ (last.prop \in BoolAccessors =>
                        last.languageText = last'.languageText))
             => last'.value = last.value]_vars

GetHasNoSideEffectsWitness ==
    /\ nops = 2
    /\ last.op = "get"
    /\ last.prop = "dataTransformation"
    /\ LastPair \notin written
    /\ written # {}

(***************************************************************************)
(* C10.  Round trip of a boolean select field: writing one of the two      *)
(* items of itemsTrueFalse through the setter and reading the getter of    *)
(* the same instance returns that item; writing anything that is not       *)
(* selectTrue makes the getter return selectFalse.                         *)
(***************************************************************************)
SelectRoundTrip ==
    (last.op = "set" /\ IsBoolCall) =>
        \A c \in Callers :
            /\ last.value \in itemsTrueFalse(c.languageText) =>
                  GetterOf(last.prop, c) = last.value
            /\ last.value # c.languageText.selectTrue =>
                  GetterOf(last.prop, c) = c.languageText.selectFalse

SelectRoundTripWitness ==
    /\ last.op = "set"
    /\ last.prop = "correctionAllow"
    /\ last.languageText = YesNo
    /\ last.value = Str("No")
    /\ \E c \in AdvancedSettingProps :
          /\ c.settingsName = last.name
          /\ Labels(c) = YesNo
          /\ correctionAllow_get(c) = Str("No")

====
